---------------------------- MODULE Spec2Model ----------------------------
(***************************************************************************)
(* A model of bevy_quickmenu's systems (src/src/systems.rs): the input     *)
(* normalizer (keyboard_input_system, cross_threshold), the gamepad axis   *)
(* tracker, input_system, mouse_system, redraw_system and cleanup_system,  *)
(* run once per frame ("tick") by the host scheduler.                      *)
(*                                                                         *)
(* Axis values are f32 in the source; here they are integers in hundredths *)
(* (0.10 is 10), which keeps every comparison the source makes exact.      *)
(***************************************************************************)
EXTENDS Integers, Sequences, FiniteSets, TLC

\* const STICK_THRESHOLD: f32 = 0.10, in hundredths
STICK_THRESHOLD == 10

\* ---- bounds of the model ----
\* raw device events (keys, axis changes) arriving in one tick of the normalizer
MaxArrivals == 2
\* keyboard events arriving in one tick of the menu
MaxKeys == 1
\* keyboard events arriving in one tick of a burst
MaxBurst == 2
\* axis-change events over one behaviour
MaxAxisTotal == 2
\* Interaction components changed in one run of mouse_system
MaxChanged == 1

\* ---- the alphabets of the environment ----
KeyCodes == {"ArrowDown", "ArrowUp", "Enter", "Backspace", "KeyA"}
Buttons == {"DPadDown", "DPadUp", "DPadRight", "South", "West", "East", "North"}
Gamepads == {"g1", "g2"}
Axes == {"LeftStickY", "RightStickY", "LeftStickX", "RightStickX", "LeftZ"}
AxisValues == {-20, -10, -5, 5, 10, 20, 25}

EmptyMap == [x \in {} |-> 0]

\* ---- the menu tree the host supplies (a ScreenTrait implementation) ----
Screens == {"Root", "Settings", "Sound"}

Items(screen) ==
    CASE screen = "Root" ->
           << [kind |-> "action", target |-> "Quit"],
              [kind |-> "screen", target |-> "Settings"] >>
      [] screen = "Settings" ->
           << [kind |-> "screen", target |-> "Sound"],
              [kind |-> "action", target |-> "Toggle"] >>
      [] OTHER ->
           << [kind |-> "action", target |-> "Mute"],
              [kind |-> "action", target |-> "Loud"] >>

ItemCount(screen) == Len(Items(screen))

VARIABLES
    arrived,              \* raw device events of this tick, in arrival order
    just_pressed,         \* Gamepad::just_pressed, per gamepad, this tick
    activation,           \* GamepadActivation components: gamepad -> (axis -> value)
    nav,                  \* Messages<NavigationEvent>: the messages of the two buffers
                          \* that input_system's reader has not read yet
    redraw,               \* Messages<RedrawEvent>: messages in the two buffers
    menu_exists,          \* the MenuState<S> resource exists
    stack,                \* MenuState.menu: the Menu Stack, root first
    initial_render_done,  \* MenuState.initial_render_done
    selections,           \* the Selections resource: screen -> row
    visuals,              \* the QuickMenuComponent button entities
    cleanup_ui,           \* the CleanUpUI resource exists
    commands,             \* Commands queued in this tick, applied at its end
    ran,                  \* the systems that have run in this tick
    dispatched,           \* action events written in this tick
    axis_total,           \* axis events delivered so far (bounds the model)
    kbd_log,              \* what keyboard_input_system did in this tick
    input_log,            \* what input_system did in this tick
    mouse_log,            \* what mouse_system did in this tick
    redraw_log,           \* what redraw_system decided in this tick
    signalled,            \* a RedrawEvent was written since redraw_system last ran
    scheduled,            \* the systems the app runs each tick
    pointer               \* the Interaction values the pointer produces

vars == << arrived, just_pressed, activation, nav, redraw, menu_exists, stack,
           initial_render_done, selections, visuals, cleanup_ui, commands, ran,
           dispatched, axis_total, kbd_log, input_log, mouse_log, redraw_log,
           signalled, scheduled, pointer >>

inputVars == << arrived, just_pressed, axis_total, scheduled, pointer >>

\* ------------------------------------------------------------------------
\* The schedule of one tick: normalize, apply the intent, pointer, redraw
\* ------------------------------------------------------------------------
Schedule == << "cleanup_system", "insert_gamepad_activation_system",
               "keyboard_input_system", "input_system", "mouse_system",
               "redraw_system" >>

Position(system) == CHOOSE i \in 1..Len(Schedule) : Schedule[i] = system
menuVars == << menu_exists, stack, initial_render_done, selections >>

RunCondition(system) ==
    CASE system = "cleanup_system" -> cleanup_ui
      [] system = "insert_gamepad_activation_system" -> TRUE
      [] OTHER -> menu_exists

\* a system runs once per tick, after the systems scheduled before it
MayRun(system) ==
    /\ system \in scheduled
    /\ system \notin ran
    /\ RunCondition(system)
    /\ \A t \in scheduled :
         (Position(t) < Position(system) /\ RunCondition(t)) => t \in ran

\* ------------------------------------------------------------------------
\* Raw events
\* ------------------------------------------------------------------------
KeyEvent(k) == [kind |-> "key", key |-> k, entity |-> "none", axis |-> "none", value |-> 0]
AxisEvent(g, a, v) == [kind |-> "axis", key |-> "none", entity |-> g, axis |-> a, value |-> v]

IsKey(e) == e.kind = "key"
IsAxis(e) == e.kind = "axis"
AxisCount(events) == Len(SelectSeq(events, IsAxis))

\* MessageReader<KeyboardInput>: the keyboard events of the tick, in order
keyboard_input == SelectSeq(arrived, IsKey)
\* MessageReader<GamepadAxisChangedEvent>: the axis events of the tick, in order
axis_events == SelectSeq(arrived, IsAxis)

\* ------------------------------------------------------------------------
\* keyboard_input_system
\* ------------------------------------------------------------------------
\* a variant with the two arrows exchanged
KeyIntentArrowsSwapped(key) ==
    CASE key = "ArrowDown" -> << "Up" >>
      [] key = "ArrowUp"   -> << "Down" >>
      [] key = "Enter"     -> << "Select" >>
      [] key = "Backspace" -> << "Back" >>
      [] OTHER             -> << >>

\* match event.key_code
KeyIntent(key) ==
    CASE key = "ArrowDown" -> << "Down" >>
      [] key = "ArrowUp"   -> << "Up" >>
      [] key = "Enter"     -> << "Select" >>
      [] key = "Backspace" -> << "Back" >>
      [] OTHER             -> << >>

RECURSIVE KeyLoop(_)
KeyLoop(events) ==
    IF events = << >> THEN << >>
    ELSE KeyIntent(Head(events).key) \o KeyLoop(Tail(events))

\* the if / else-if chain over gamepad.just_pressed
ButtonIntentSwapped(pressed) ==
    IF "South" \in pressed \/ "West" \in pressed THEN << "Select" >>
    ELSE IF "DPadDown" \in pressed THEN << "Down" >>
    ELSE IF "DPadUp" \in pressed THEN << "Up" >>
    ELSE IF "DPadRight" \in pressed THEN << "Back" >>
    ELSE IF "East" \in pressed \/ "North" \in pressed THEN << "Back" >>
    ELSE << >>

ButtonIntent(pressed) ==
    IF "DPadDown" \in pressed THEN << "Down" >>
    ELSE IF "DPadUp" \in pressed THEN << "Up" >>
    ELSE IF "DPadRight" \in pressed THEN << "Back" >>
    ELSE IF "South" \in pressed \/ "West" \in pressed THEN << "Select" >>
    ELSE IF "East" \in pressed \/ "North" \in pressed THEN << "Back" >>
    ELSE << >>

RECURSIVE GamepadLoop(_, _)
GamepadLoop(order, pressed) ==
    IF order = << >> THEN << >>
    ELSE ButtonIntent(pressed[Head(order)]) \o GamepadLoop(Tail(order), pressed)

\* a level-triggered variant: fires whenever the value is past the threshold
cross_threshold_level(current, previous, v, positive) ==
    IF positive THEN current > v ELSE current < v

\* a variant that also fires when the previous value sits on the threshold
cross_threshold_inclusive(current, previous, v, positive) ==
    IF positive
    THEN current > v /\ v >= previous
    ELSE current < v /\ v <= previous

cross_threshold(current, previous, v, positive) ==
    IF positive
    THEN current > v /\ v > previous
    ELSE current < v /\ v < previous

\* a variant whose X axes also act on the positive crossing
AxisIntentXForward(axis, current, previous) ==
    IF axis \in {"LeftStickY", "RightStickY"}
    THEN IF cross_threshold(current, previous, STICK_THRESHOLD, TRUE) THEN << "Up" >>
         ELSE IF cross_threshold(current, previous, -STICK_THRESHOLD, FALSE) THEN << "Down" >>
         ELSE << >>
    ELSE IF axis \in {"LeftStickX", "RightStickX"}
    THEN IF cross_threshold(current, previous, -STICK_THRESHOLD, FALSE) THEN << "Back" >>
         ELSE IF cross_threshold(current, previous, STICK_THRESHOLD, TRUE) THEN << "Select" >>
         ELSE << >>
    ELSE << >>

\* match event.axis
AxisIntent(axis, current, previous) ==
    IF axis \in {"LeftStickY", "RightStickY"}
    THEN IF cross_threshold(current, previous, STICK_THRESHOLD, TRUE) THEN << "Up" >>
         ELSE IF cross_threshold(current, previous, -STICK_THRESHOLD, FALSE) THEN << "Down" >>
         ELSE << >>
    ELSE IF axis \in {"LeftStickX", "RightStickX"}
    THEN IF cross_threshold(current, previous, -STICK_THRESHOLD, FALSE) THEN << "Back" >>
         ELSE << >>
    ELSE << >>

\* GamepadActivation::insert(axis, value): records the value, returns the
\* previous one, 0.0 when the axis was never recorded
TrackerPrevious(tracker, axis) ==
    IF axis \in DOMAIN tracker THEN tracker[axis] ELSE 0

TrackerInsert(tracker, axis, value) ==
    [a \in DOMAIN tracker \cup {axis} |-> IF a = axis THEN value ELSE tracker[a]]

\* a variant that creates the tracker when an event finds none
RECURSIVE AxisLoopLazyCreate(_, _)
AxisLoopLazyCreate(events, act) ==
    IF events = << >> THEN [act |-> act, out |-> << >>, log |-> << >>]
    ELSE LET e == Head(events)
             tracker == IF e.entity \in DOMAIN act THEN act[e.entity] ELSE EmptyMap
             previous == TrackerPrevious(tracker, e.axis)
             act1 == [g \in DOMAIN act \cup {e.entity} |->
                        IF g = e.entity THEN TrackerInsert(tracker, e.axis, e.value)
                        ELSE act[g]]
             o == AxisIntent(e.axis, e.value, previous)
             r == AxisLoopLazyCreate(Tail(events), act1)
         IN [act |-> r.act, out |-> o \o r.out,
             log |-> << [event |-> e, tracked |-> e.entity \in DOMAIN act,
                         previous |-> previous, out |-> o] >> \o r.log]

\* a variant that reads the tracker but does not record the new value
RECURSIVE AxisLoopNoRecord(_, _)
AxisLoopNoRecord(events, act) ==
    IF events = << >> THEN [act |-> act, out |-> << >>, log |-> << >>]
    ELSE LET e == Head(events) IN
         IF e.entity \notin DOMAIN act
         THEN LET r == AxisLoopNoRecord(Tail(events), act) IN
              [act |-> r.act, out |-> r.out,
               log |-> << [event |-> e, tracked |-> FALSE, previous |-> 0, out |-> << >>] >> \o r.log]
         ELSE LET previous == TrackerPrevious(act[e.entity], e.axis)
                  o == AxisIntent(e.axis, e.value, previous)
                  r == AxisLoopNoRecord(Tail(events), act)
              IN [act |-> r.act, out |-> o \o r.out,
                  log |-> << [event |-> e, tracked |-> TRUE, previous |-> previous, out |-> o] >> \o r.log]

\* the loop over axis_events.read(): the trackers after it, the intents it
\* wrote, and one log entry per event
RECURSIVE AxisLoop(_, _)
AxisLoop(events, act) ==
    IF events = << >> THEN [act |-> act, out |-> << >>, log |-> << >>]
    ELSE LET e == Head(events) IN
         IF e.entity \notin DOMAIN act
         THEN \* gamepad_activations.get_mut failed: continue
              LET r == AxisLoop(Tail(events), act) IN
              [act |-> r.act, out |-> r.out,
               log |-> << [event |-> e, tracked |-> FALSE, previous |-> 0, out |-> << >>] >> \o r.log]
         ELSE LET previous == TrackerPrevious(act[e.entity], e.axis)
                  act1 == [act EXCEPT ![e.entity] = TrackerInsert(@, e.axis, e.value)]
                  o == AxisIntent(e.axis, e.value, previous)
                  r == AxisLoop(Tail(events), act1)
              IN [act |-> r.act, out |-> o \o r.out,
                  log |-> << [event |-> e, tracked |-> TRUE, previous |-> previous, out |-> o] >> \o r.log]

NoKbdLog == [ran |-> FALSE, order |-> << >>, buttons |-> [g \in Gamepads |-> << >>],
             axis |-> << >>, written |-> << >>]

\* the axis loop placed before the keyboard loop
WriteOrderAxisFirst(keysOut, buttonsOut, axisOut) == axisOut \o keysOut \o buttonsOut

\* the three loops in the order of the source: keyboard events, gamepads,
\* axis events
WriteOrder(keysOut, buttonsOut, axisOut) == keysOut \o buttonsOut \o axisOut

GamepadOrders == { << "g1", "g2" >>, << "g2", "g1" >> }

keyboard_input_system ==
    /\ MayRun("keyboard_input_system")
    /\ \E order \in GamepadOrders :
         LET keysOut == KeyLoop(keyboard_input)
             buttonsOut == GamepadLoop(order, just_pressed)
             ax == AxisLoop(axis_events, activation)
             written == WriteOrder(keysOut, buttonsOut, ax.out)
         IN /\ nav' = [nav EXCEPT !.b = @ \o written]
            /\ activation' = ax.act
            /\ kbd_log' = [ran |-> TRUE, order |-> order,
                           buttons |-> [g \in Gamepads |-> ButtonIntent(just_pressed[g])],
                           axis |-> ax.log, written |-> written]
    /\ ran' = ran \cup {"keyboard_input_system"}
    /\ UNCHANGED << inputVars, menuVars, redraw, visuals, cleanup_ui, commands,
                    dispatched, input_log, mouse_log, redraw_log, signalled >>

\* ------------------------------------------------------------------------
\* insert_gamepad_activation_system
\* ------------------------------------------------------------------------
\* a query without the Without<GamepadActivation> filter
GamepadsUnfiltered(act) == Gamepads

\* Query<Entity, (With<Gamepad>, Without<GamepadActivation>)>
GamepadsWithoutActivation(act) == Gamepads \ DOMAIN act

insert_gamepad_activation_system ==
    /\ MayRun("insert_gamepad_activation_system")
    /\ commands' = [commands EXCEPT !.insert = GamepadsWithoutActivation(activation)]
    /\ ran' = ran \cup {"insert_gamepad_activation_system"}
    /\ UNCHANGED << inputVars, menuVars, activation, nav, redraw, visuals, cleanup_ui,
                    dispatched, kbd_log, input_log, mouse_log, redraw_log, signalled >>

\* ------------------------------------------------------------------------
\* The Selection Store and the Menu Stack (NavigationMenu)
\* ------------------------------------------------------------------------
\* Selections lookup: the row stored for a screen, 0 for an unseen screen
SelectedRow(sel, screen) ==
    IF screen \in DOMAIN sel THEN sel[screen] ELSE 0

\* selections.0.insert(id, row)
SelectionsInsert(sel, screen, row) ==
    [s \in DOMAIN sel \cup {screen} |-> IF s = screen THEN row ELSE sel[s]]

\* the index a screen uses: the stored row, clamped to the screen's items
CurrentIndex(sel, screen) ==
    LET row == SelectedRow(sel, screen) IN
    IF row > ItemCount(screen) - 1 THEN ItemCount(screen) - 1
    ELSE IF row < 0 THEN 0 ELSE row

Top(stk) == stk[Len(stk)]

Outcome(stk, sel, result) == [stack |-> stk, sel |-> sel, result |-> result]

\* Back that pops whatever the depth
BackEventUnguarded(stk, sel) ==
    Outcome(SubSeq(stk, 1, Len(stk) - 1), sel, << >>)

\* Back: pops the top screen unless only the root is left
BackEvent(stk, sel) ==
    IF Len(stk) > 1 THEN Outcome(SubSeq(stk, 1, Len(stk) - 1), sel, << >>)
    ELSE Outcome(stk, sel, << >>)

\* Up / Down: step the index of the top screen, keeping it at a boundary
MoveEvent(stk, sel, delta) ==
    LET screen == Top(stk)
        index == CurrentIndex(sel, screen)
        moved == index + delta
        next == IF moved < 0 \/ moved > ItemCount(screen) - 1 THEN index ELSE moved
    IN Outcome(stk, SelectionsInsert(sel, screen, next), << >>)

\* Select: an action item is returned for dispatch, a screen item is pushed
SelectEvent(stk, sel) ==
    LET item == Items(Top(stk))[CurrentIndex(sel, Top(stk)) + 1] IN
    IF item.kind = "action" THEN Outcome(stk, sel, << item >>)
    ELSE Outcome(Append(stk, item.target), sel, << >>)

\* NavigationMenu::apply_event(event, selections) -> Option<selection>
apply_event(event, stk, sel) ==
    IF stk = << >> THEN Outcome(stk, sel, << >>)
    ELSE CASE event = "Up"     -> MoveEvent(stk, sel, -1)
           [] event = "Down"   -> MoveEvent(stk, sel, 1)
           [] event = "Select" -> SelectEvent(stk, sel)
           [] OTHER            -> BackEvent(stk, sel)

\* NavigationMenu::handle_selection(selection, event_writer): the action events
\* the handler writes
handle_selection(result) ==
    IF result = << >> THEN << >> ELSE << result[1].target >>

StackIndex(stk, screen) ==
    IF \E i \in 1..Len(stk) : stk[i] = screen
    THEN CHOOSE i \in 1..Len(stk) : stk[i] = screen /\ \A j \in 1..(i - 1) : stk[j] # screen
    ELSE 0

\* NavigationMenu::pop_to_selection: discard the screens above the target's;
\* nothing when the target's screen is not on the stack
pop_to_selection(stk, screen) ==
    IF StackIndex(stk, screen) = 0 THEN stk
    ELSE SubSeq(stk, 1, StackIndex(stk, screen))

\* NavigationMenu::show: one button per item of every screen on the stack
Button(screen, row, selected) ==
    [screen |-> screen, row |-> row, selected |-> selected,
     bg |-> IF selected THEN "selected" ELSE "normal"]

Show(stk, sel) ==
    UNION { { Button(stk[i], row, row = CurrentIndex(sel, stk[i])) :
                row \in 0..(ItemCount(stk[i]) - 1) } : i \in 1..Len(stk) }

\* ------------------------------------------------------------------------
\* input_system
\* ------------------------------------------------------------------------
\* the NavigationEvent messages input_system's reader has not read yet
UnreadNav(n) == n.a \o n.b

\* the reader's cursor moves past the first k unread messages
NavAfterRead(n, k) ==
    LET fromA == IF k < Len(n.a) THEN k ELSE Len(n.a) IN
    [a |-> SubSeq(n.a, fromA + 1, Len(n.a)),
     b |-> SubSeq(n.b, k - fromA + 1, Len(n.b))]

Effect(stk, sel, out, redraws) ==
    [stack |-> stk, sel |-> sel, dispatched |-> out, redraws |-> redraws]

\* the body of `if let Some(event)` without the handle_selection call
InputStepNoDispatch(event, stk, sel) ==
    LET r == apply_event(event, stk, sel) IN Effect(r.stack, r.sel, << >>, 1)

\* a variant that writes the RedrawEvent only when the intent changed
\* something or gave a selection
InputStepRedrawOnChange(event, stk, sel) ==
    LET r == apply_event(event, stk, sel) IN
    Effect(r.stack, r.sel, handle_selection(r.result),
           IF r.stack # stk \/ r.sel # sel \/ r.result # << >> THEN 1 ELSE 0)

\* the body of `if let Some(event) = reader.read().next()`
InputStep(event, stk, sel) ==
    LET r == apply_event(event, stk, sel) IN
    Effect(r.stack, r.sel, handle_selection(r.result), 1)

\* reader.read().next(): the first unread message, if any
EventsTaken(unread) ==
    IF unread = << >> THEN << >> ELSE << Head(unread) >>

NoInputLog == [ran |-> FALSE, events |-> << >>, stack |-> << >>, index |-> 0,
               dispatched |-> << >>, redraws |-> 0]

RECURSIVE InputLoop(_, _)
InputLoop(events, eff) ==
    IF events = << >> THEN eff
    ELSE LET e == InputStep(Head(events), eff.stack, eff.sel) IN
         InputLoop(Tail(events),
                   Effect(e.stack, e.sel, eff.dispatched \o e.dispatched,
                          eff.redraws + e.redraws))

input_system ==
    /\ MayRun("input_system")
    /\ LET taken == EventsTaken(UnreadNav(nav))
           eff == InputLoop(taken, Effect(stack, selections, << >>, 0))
       IN /\ nav' = NavAfterRead(nav, Len(taken))
          /\ stack' = eff.stack
          /\ selections' = eff.sel
          /\ dispatched' = dispatched \o eff.dispatched
          /\ redraw' = [redraw EXCEPT !.b = @ + eff.redraws]
          /\ signalled' = (signalled \/ eff.redraws > 0)
          /\ input_log' = [ran |-> TRUE, events |-> taken, stack |-> stack,
                           index |-> CurrentIndex(selections, Top(stack)),
                           dispatched |-> eff.dispatched, redraws |-> eff.redraws]
    /\ ran' = ran \cup {"input_system"}
    /\ UNCHANGED << inputVars, activation, menu_exists, initial_render_done, visuals,
                    cleanup_ui, commands, kbd_log, mouse_log, redraw_log >>

\* ------------------------------------------------------------------------
\* mouse_system
\* ------------------------------------------------------------------------
\* a press that pre-selects the row after the pressed one
PressStepNextRow(button, stk, sel) ==
    LET r == apply_event("Select", pop_to_selection(stk, button.screen),
                         SelectionsInsert(sel, button.screen, button.row + 1))
    IN Effect(r.stack, r.sel, handle_selection(r.result),
              IF r.result # << >> THEN 1 ELSE 0)

\* a press that skips pop_to_selection
PressStepNoPop(button, stk, sel) ==
    LET r == apply_event("Select", stk,
                         SelectionsInsert(sel, button.screen, button.row))
    IN Effect(r.stack, r.sel, handle_selection(r.result),
              IF r.result # << >> THEN 1 ELSE 0)

\* a press that replaces the store by the one pre-selected row
PressStepResetStore(button, stk, sel) ==
    LET popped == pop_to_selection(stk, button.screen)
        preselected == SelectionsInsert(EmptyMap, button.screen, button.row)
        r == apply_event("Select", popped, preselected)
    IN Effect(r.stack, r.sel, handle_selection(r.result),
              IF r.result # << >> THEN 1 ELSE 0)

\* Interaction::Pressed
PressStep(button, stk, sel) ==
    LET popped == pop_to_selection(stk, button.screen)
        preselected == SelectionsInsert(sel, button.screen, button.row)
        r == apply_event("Select", popped, preselected)
    IN Effect(r.stack, r.sel, handle_selection(r.result),
              IF r.result # << >> THEN 1 ELSE 0)

\* a variant without the `if !selected` test
HoverColourIgnoresSelected(button, interaction) ==
    IF interaction = "Hovered" THEN "hover" ELSE "normal"

\* Interaction::Hovered / Interaction::None: the button's background colour
HoverColour(button, interaction) ==
    IF button.selected THEN button.bg
    ELSE IF interaction = "Hovered" THEN "hover" ELSE "normal"

\* the loop over the changed interactions
RECURSIVE MouseLoop(_, _)
MouseLoop(changed, st) ==
    IF changed = << >> THEN st
    ELSE LET c == Head(changed) IN
         IF c.interaction = "Pressed"
         THEN LET e == PressStep(c.button, st.stack, st.sel) IN
              MouseLoop(Tail(changed),
                  [st EXCEPT !.stack = e.stack, !.sel = e.sel,
                             !.dispatched = @ \o e.dispatched,
                             !.redraws = @ + e.redraws,
                             !.log = Append(@, [button |-> c.button, interaction |-> c.interaction,
                                                stack |-> st.stack,
                                                dispatched |-> e.dispatched,
                                                redraws |-> e.redraws])])
         ELSE MouseLoop(Tail(changed),
                  [st EXCEPT !.visuals = (@ \ {c.button}) \cup
                                 {[c.button EXCEPT !.bg = HoverColour(c.button, c.interaction)]},
                             !.log = Append(@, [button |-> c.button, interaction |-> c.interaction,
                                                stack |-> st.stack,
                                                dispatched |-> << >>, redraws |-> 0])])

Changes(vis) == [button : vis, interaction : pointer]

\* Query<.., Changed<Interaction>>: up to n buttons, each at most once
RECURSIVE ChangedSeqs(_, _)
ChangedSeqs(vis, n) ==
    IF n = 0 THEN { << >> }
    ELSE LET shorter == ChangedSeqs(vis, n - 1) IN
         shorter \cup
         { Append(s, c) : s \in { t \in shorter : Len(t) = n - 1 },
                          c \in { d \in Changes(vis) : TRUE } }

DistinctButtons(s) ==
    \A i, j \in 1..Len(s) :
        i # j => << s[i].button.screen, s[i].button.row >> # << s[j].button.screen, s[j].button.row >>

mouse_system ==
    /\ MayRun("mouse_system")
    /\ \E changed \in ChangedSeqs(visuals, MaxChanged) :
         /\ DistinctButtons(changed)
         /\ LET st == MouseLoop(changed,
                          [stack |-> stack, sel |-> selections, dispatched |-> << >>,
                           redraws |-> 0, visuals |-> visuals, log |-> << >>])
            IN /\ stack' = st.stack
               /\ selections' = st.sel
               /\ dispatched' = dispatched \o st.dispatched
               /\ redraw' = [redraw EXCEPT !.b = @ + st.redraws]
               /\ signalled' = (signalled \/ st.redraws > 0)
               /\ visuals' = st.visuals
               /\ mouse_log' = st.log
    /\ ran' = ran \cup {"mouse_system"}
    /\ UNCHANGED << inputVars, activation, nav, menu_exists, initial_render_done,
                    cleanup_ui, commands, kbd_log, input_log, redraw_log >>

\* ------------------------------------------------------------------------
\* redraw_system
\* ------------------------------------------------------------------------
NoCommands == [insert |-> {}, despawn |-> FALSE, spawn |-> {},
               remove_cleanup |-> FALSE, remove_menu |-> FALSE]

\* redraw_reader.is_empty(): the reader is never read nor cleared, so its
\* cursor stays at 0 and every message still held by Messages<RedrawEvent>
\* counts as unread
RedrawReaderIsEmpty(r) == r.a + r.b = 0

\* can_redraw
RedrawDecision(r, done) == ~RedrawReaderIsEmpty(r) \/ ~done

NoRedrawLog == [ran |-> FALSE, rebuilt |-> FALSE, first |-> FALSE, signalled |-> FALSE,
                unapplied |-> 0]

redraw_system ==
    /\ MayRun("redraw_system")
    /\ LET can_redraw == RedrawDecision(redraw, initial_render_done) IN
       /\ initial_render_done' = TRUE
       /\ commands' = IF can_redraw
                      THEN [commands EXCEPT !.despawn = TRUE, !.spawn = Show(stack, selections)]
                      ELSE commands
       /\ redraw_log' = [ran |-> TRUE, rebuilt |-> can_redraw,
                         first |-> ~initial_render_done, signalled |-> signalled,
                         unapplied |-> Len(UnreadNav(nav))]
    /\ signalled' = FALSE
    /\ ran' = ran \cup {"redraw_system"}
    /\ UNCHANGED << inputVars, activation, nav, redraw, menu_exists, stack, selections,
                    visuals, cleanup_ui, dispatched, kbd_log, input_log, mouse_log >>

\* ------------------------------------------------------------------------
\* cleanup_system, and the host's requests
\* ------------------------------------------------------------------------
cleanup_system ==
    /\ MayRun("cleanup_system")
    /\ commands' = [commands EXCEPT !.despawn = TRUE, !.remove_cleanup = TRUE,
                                    !.remove_menu = TRUE]
    /\ ran' = ran \cup {"cleanup_system"}
    /\ UNCHANGED << inputVars, menuVars, activation, nav, redraw, visuals, cleanup_ui,
                    dispatched, kbd_log, input_log, mouse_log, redraw_log, signalled >>

\* the host inserts the CleanUpUI resource to close the menu
RequestCleanup ==
    /\ ran = {}
    /\ menu_exists
    /\ ~cleanup_ui
    /\ cleanup_ui' = TRUE
    /\ UNCHANGED << inputVars, menuVars, activation, nav, redraw, visuals, commands, ran,
                    dispatched, kbd_log, input_log, mouse_log, redraw_log, signalled >>

\* the host inserts a fresh MenuState (root screen only, nothing rendered yet)
CreateMenu ==
    /\ ran = {}
    /\ ~menu_exists
    /\ menu_exists' = TRUE
    /\ stack' = << "Root" >>
    /\ initial_render_done' = FALSE
    /\ UNCHANGED << inputVars, activation, nav, redraw, selections, visuals, cleanup_ui,
                    commands, ran, dispatched, kbd_log, input_log, mouse_log, redraw_log,
                    signalled >>

\* ------------------------------------------------------------------------
\* The frame boundary
\* ------------------------------------------------------------------------
\* Messages::update: the older buffer is dropped, the newer becomes the older
NavUpdate(n) == [a |-> n.b, b |-> << >>]

RedrawUpdate(r) == [a |-> r.b, b |-> 0]

NoPressed == [g \in Gamepads |-> {}]

TickWith(arrivals, pressed) ==
    /\ \A s \in scheduled : RunCondition(s) => s \in ran
    /\ axis_total + AxisCount(arrivals) <= MaxAxisTotal
    /\ (~menu_exists \/ commands.remove_menu) => (arrivals = << >> /\ pressed = NoPressed)
    \* the queued commands are applied
    /\ visuals' = (IF commands.despawn THEN {} ELSE visuals) \cup commands.spawn
    \* commands.entity(g).insert(GamepadActivation::new()) sets the component
    /\ activation' = [g \in DOMAIN activation \cup commands.insert |->
                        IF g \in commands.insert THEN EmptyMap ELSE activation[g]]
    /\ cleanup_ui' = (cleanup_ui /\ ~commands.remove_cleanup)
    /\ menu_exists' = (menu_exists /\ ~commands.remove_menu)
    /\ stack' = IF commands.remove_menu THEN << >> ELSE stack
    /\ initial_render_done' = (initial_render_done /\ ~commands.remove_menu)
    /\ commands' = NoCommands
    \* the message buffers rotate
    /\ nav' = NavUpdate(nav)
    /\ redraw' = RedrawUpdate(redraw)
    \* the next frame's input
    /\ arrived' = arrivals
    /\ just_pressed' = pressed
    /\ axis_total' = axis_total + AxisCount(arrivals)
    /\ ran' = {}
    /\ dispatched' = << >>
    /\ kbd_log' = NoKbdLog
    /\ input_log' = NoInputLog
    /\ mouse_log' = << >>
    /\ redraw_log' = NoRedrawLog
    /\ UNCHANGED << selections, signalled, scheduled, pointer >>

RECURSIVE SeqsUpTo(_, _)
SeqsUpTo(S, n) ==
    IF n = 0 THEN { << >> }
    ELSE LET shorter == SeqsUpTo(S, n - 1) IN
         shorter \cup { Append(s, x) : s \in { t \in shorter : Len(t) = n - 1 }, x \in S }

KeyEvents == { KeyEvent(k) : k \in KeyCodes }
NavKeyEvents == { KeyEvent(k) : k \in KeyCodes \ {"KeyA"} }
\* g1's left stick at every value, its other axes and g2's stick pushed
\* either way
AxisEventsAll ==
    { AxisEvent("g1", a, v) : a \in {"LeftStickY", "LeftStickX"}, v \in AxisValues } \cup
    { AxisEvent("g1", a, v) : a \in Axes \ {"LeftStickY", "LeftStickX"}, v \in {-20, 20} } \cup
    { AxisEvent("g2", "LeftStickY", v) : v \in {-20, 20} }

MenuSystems == {"keyboard_input_system", "input_system", "mouse_system",
                "redraw_system", "cleanup_system"}
BurstSystems == {"keyboard_input_system", "input_system", "redraw_system"}
InputSystems == {"keyboard_input_system", "insert_gamepad_activation_system"}
ButtonSystems == {"keyboard_input_system"}

KeyBatches == SeqsUpTo(NavKeyEvents, MaxKeys)
BurstBatches == SeqsUpTo(NavKeyEvents, MaxBurst)

\* a frame of the menu: keyboard input
Tick ==
    \E keys \in KeyBatches : TickWith(keys, NoPressed)

\* a frame with a burst of keyboard input
TickBurst ==
    \E keys \in BurstBatches : TickWith(keys, NoPressed)

\* the batches of raw events that hold at most `budget` axis events
ArrivalBatches ==
    [budget \in 0..MaxAxisTotal |->
        { s \in SeqsUpTo({KeyEvent("ArrowDown")} \cup AxisEventsAll, MaxArrivals) :
            AxisCount(s) <= budget }]

\* nothing, or one button on either gamepad
InputPressed ==
    { NoPressed,
      [NoPressed EXCEPT !["g1"] = {"South"}],
      [NoPressed EXCEPT !["g2"] = {"DPadRight"}] }

\* a frame of the normalizer: keys and axis changes, in any arrival order,
\* with or without a button just pressed
TickInput ==
    \E arrivals \in ArrivalBatches[MaxAxisTotal - axis_total], pressed \in InputPressed :
        TickWith(arrivals, pressed)

\* every combination of buttons on g1, with a few on g2
PressedCombinations ==
    { [g \in Gamepads |-> IF g = "g1" THEN p1 ELSE p2] :
        p1 \in SUBSET Buttons, p2 \in { {}, {"South"} } }

\* a frame of the normalizer: gamepad buttons just pressed
TickButtons ==
    \E pressed \in PressedCombinations : TickWith(<< >>, pressed)

\* the state when the plugin's first tick starts, with the raw events of
\* that tick
InitFrom(systems, interactions, first) ==
    /\ scheduled = systems
    /\ pointer = interactions
    /\ arrived = first
    /\ just_pressed = NoPressed
    /\ activation = [g \in {"g1"} |-> EmptyMap]
    /\ nav = [a |-> << >>, b |-> << >>]
    /\ redraw = [a |-> 0, b |-> 0]
    /\ menu_exists = TRUE
    /\ stack = << "Root" >>
    /\ initial_render_done = FALSE
    /\ selections = EmptyMap
    /\ visuals = {}
    /\ cleanup_ui = FALSE
    /\ commands = NoCommands
    /\ ran = {}
    /\ dispatched = << >>
    /\ axis_total = AxisCount(first)
    /\ kbd_log = NoKbdLog
    /\ input_log = NoInputLog
    /\ mouse_log = << >>
    /\ redraw_log = NoRedrawLog
    /\ signalled = FALSE

InitWith(systems, interactions) == InitFrom(systems, interactions, << >>)

\* the menu: keys, pointer presses, redraw
Init == InitWith(MenuSystems, {"Pressed"})

Next ==
    \/ keyboard_input_system
    \/ input_system
    \/ mouse_system
    \/ redraw_system
    \/ Tick

Spec == Init /\ [][Next]_vars

\* the menu with its teardown and re-creation by the host
NextLifecycle ==
    \/ keyboard_input_system
    \/ input_system
    \/ mouse_system
    \/ redraw_system
    \/ cleanup_system
    \/ RequestCleanup
    \/ CreateMenu
    \/ Tick

SpecLifecycle == Init /\ [][NextLifecycle]_vars

\* the menu under bursts of keys
InitBurst == InitWith(BurstSystems, {})

NextBurst ==
    \/ keyboard_input_system
    \/ input_system
    \/ redraw_system
    \/ TickBurst

SpecBurst == InitBurst /\ [][NextBurst]_vars

\* the normalizer with sticks and keys
InitInput == InitWith(InputSystems, {})

NextInput ==
    \/ keyboard_input_system
    \/ insert_gamepad_activation_system
    \/ TickInput

SpecInput == InitInput /\ [][NextInput]_vars

\* the normalizer when a gamepad's first axis events arrive in the tick it
\* connected, before its tracker is inserted
InitRace ==
    \E first \in ArrivalBatches[MaxAxisTotal] : InitFrom(InputSystems, {}, first)

TickRace ==
    \E arrivals \in ArrivalBatches[MaxAxisTotal - axis_total] :
        TickWith(arrivals, NoPressed)

NextRace ==
    \/ keyboard_input_system
    \/ insert_gamepad_activation_system
    \/ TickRace

SpecRace == InitRace /\ [][NextRace]_vars

\* the normalizer with every key code
AllKeyBatches == SeqsUpTo(KeyEvents, MaxArrivals)

TickKeys ==
    \E keys \in AllKeyBatches : TickWith(keys, NoPressed)

InitKeys == InitWith(ButtonSystems, {})

NextKeys ==
    \/ keyboard_input_system
    \/ TickKeys

SpecKeys == InitKeys /\ [][NextKeys]_vars

\* the menu with a pointer that hovers and leaves, never presses
InitHover == InitWith(MenuSystems, {"Hovered", "None"})

NextHover ==
    \/ keyboard_input_system
    \/ input_system
    \/ mouse_system
    \/ redraw_system
    \/ Tick

SpecHover == InitHover /\ [][NextHover]_vars

\* the normalizer with gamepad buttons
InitButtons == InitWith(ButtonSystems, {})

NextButtons ==
    \/ keyboard_input_system
    \/ TickButtons

SpecButtons == InitButtons /\ [][NextButtons]_vars

\* ------------------------------------------------------------------------
\* Properties
\* ------------------------------------------------------------------------
YAxes == {"LeftStickY", "RightStickY"}

SameChannel(l, m) == l.event.entity = m.event.entity /\ l.event.axis = m.event.axis

\* C1: stick navigation is edge-triggered. An axis event on a Y axis of a
\* tracked gamepad emits Up exactly when the previously recorded value is
\* below +0.10 and the new value above it, Down exactly when the previous
\* value is above -0.10 and the new value below it, and nothing otherwise; an
\* event that follows another on the same side of the threshold emits nothing.
C1_EdgeTriggered ==
    \A i \in 1..Len(kbd_log.axis) :
        LET l == kbd_log.axis[i] IN
        (l.tracked /\ l.event.axis \in YAxes) =>
            /\ l.out \in { << >>, << "Up" >>, << "Down" >> }
            /\ (l.out = << "Up" >>) <=>
                   (l.previous < STICK_THRESHOLD /\ l.event.value > STICK_THRESHOLD)
            /\ (l.out = << "Down" >>) <=>
                   (l.previous > -STICK_THRESHOLD /\ l.event.value < -STICK_THRESHOLD)
            /\ \A j \in 1..(i - 1) :
                   LET m == kbd_log.axis[j] IN
                   ( /\ SameChannel(l, m)
                     /\ \A k \in (j + 1)..(i - 1) : ~SameChannel(l, kbd_log.axis[k])
                     /\ \/ m.event.value > STICK_THRESHOLD /\ l.event.value > STICK_THRESHOLD
                        \/ m.event.value < -STICK_THRESHOLD /\ l.event.value < -STICK_THRESHOLD )
                   => l.out = << >>

\* the stick held past the threshold: a second event above it, no intent
C1_Witness ==
    \E i \in 1..Len(kbd_log.axis) :
        LET l == kbd_log.axis[i] IN
        /\ l.tracked
        /\ l.event.axis \in YAxes
        /\ l.previous > STICK_THRESHOLD
        /\ l.event.value > STICK_THRESHOLD
        /\ l.out = << >>

PressedEntries == { i \in 1..Len(mouse_log) : mouse_log[i].interaction = "Pressed" }

\* C2: every Interaction::Pressed handled by mouse_system writes a
\* RedrawEvent, whether the pressed item is an action or pushes a child screen.
C2_PressAlwaysRedraws ==
    \A i \in PressedEntries : mouse_log[i].redraws >= 1

\* C3: when redraw_system decides, every intent written to the
\* NavigationEvent messages has been applied by input_system.
C3_AllIntentsAppliedBeforeRedraw ==
    redraw_log.ran => redraw_log.unapplied = 0

\* C4: redraw_system rebuilds exactly when a RedrawEvent was written since it
\* last decided, or the MenuState has not been rendered yet.
C4_RebuildIffSignalOrFirst ==
    redraw_log.ran => (redraw_log.rebuilt <=> (redraw_log.signalled \/ redraw_log.first))

\* C5: while the MenuState exists the Menu Stack holds at least the root
\* screen, whatever intents and pointer presses were applied.
C5_StackNeverEmpty ==
    menu_exists => (Len(stack) >= 1 /\ stack[1] = "Root")

\* Back was applied to a stack that held only the root
C5_Witness ==
    /\ input_log.ran
    /\ input_log.events = << "Back" >>
    /\ input_log.stack = << "Root" >>
    /\ stack = << "Root" >>

\* C6: every row held by the Selection Store is a row of its screen.
C6_SelectionsInBounds ==
    \A screen \in DOMAIN selections :
        selections[screen] >= 0 /\ selections[screen] <= ItemCount(screen) - 1

\* Down was applied at the last row of the top screen
C6_Witness ==
    /\ input_log.ran
    /\ input_log.events = << "Down" >>
    /\ input_log.index = ItemCount(Top(input_log.stack)) - 1
    /\ "mouse_system" \notin ran
    /\ selections[Top(stack)] = ItemCount(Top(stack)) - 1

\* the item input_system's Select resolved
SelectedItem == Items(Top(input_log.stack))[input_log.index + 1]

InputJustSelected ==
    /\ input_log.ran
    /\ input_log.events = << "Select" >>
    /\ "mouse_system" \notin ran

\* C7: Select on an action item dispatches that action once and leaves the
\* stack as it was; Select on a screen item pushes that screen and dispatches
\* nothing.
C7_SelectActionOrScreen ==
    InputJustSelected =>
        IF SelectedItem.kind = "action"
        THEN /\ input_log.dispatched = << SelectedItem.target >>
             /\ dispatched = << SelectedItem.target >>
             /\ stack = input_log.stack
        ELSE /\ input_log.dispatched = << >>
             /\ dispatched = << >>
             /\ stack = Append(input_log.stack, SelectedItem.target)

\* Select on the root's action item dispatched it
C7_Witness ==
    /\ InputJustSelected
    /\ SelectedItem.kind = "action"
    /\ dispatched = << SelectedItem.target >>
    /\ stack = << "Root" >>

LastChange == mouse_log[Len(mouse_log)]

PressedItem == Items(LastChange.button.screen)[LastChange.button.row + 1]

\* C8: a press on an item of a screen on the stack collapses the stack to
\* that screen, stores the item's row for the screen and resolves the item, all
\* in the one run of mouse_system.
C8_PressJumpsAndSelects ==
    ( /\ mouse_log # << >>
      /\ LastChange.interaction = "Pressed"
      /\ StackIndex(LastChange.stack, LastChange.button.screen) > 0 ) =>
        LET kept == SubSeq(LastChange.stack, 1,
                           StackIndex(LastChange.stack, LastChange.button.screen))
        IN /\ LastChange.button.screen \in DOMAIN selections
           /\ selections[LastChange.button.screen] = LastChange.button.row
           /\ IF PressedItem.kind = "action"
              THEN stack = kept /\ LastChange.dispatched = << PressedItem.target >>
              ELSE stack = Append(kept, PressedItem.target) /\ LastChange.dispatched = << >>

\* three levels deep, an item of the root was pressed
C8_Witness ==
    /\ mouse_log # << >>
    /\ LastChange.interaction = "Pressed"
    /\ Len(LastChange.stack) = 3
    /\ LastChange.button.screen = "Root"
    /\ Len(stack) <= 2

\* the fixed priority of the digital buttons, and the intent of each
ButtonRank(button) ==
    CASE button = "DPadDown" -> 1
      [] button = "DPadUp" -> 2
      [] button = "DPadRight" -> 3
      [] button \in {"South", "West"} -> 4
      [] OTHER -> 5

ButtonMeaning(button) ==
    CASE button = "DPadDown" -> "Down"
      [] button = "DPadUp" -> "Up"
      [] button \in {"South", "West"} -> "Select"
      [] OTHER -> "Back"

\* C9: per gamepad and tick the digital buttons give at most one intent, that
\* of the just-pressed button of highest priority, and none when no button was
\* just pressed; the gamepads' intents are written in the order of the query.
C9_ButtonPriority ==
    kbd_log.ran =>
        /\ \A g \in Gamepads :
             IF just_pressed[g] = {}
             THEN kbd_log.buttons[g] = << >>
             ELSE \E b \in just_pressed[g] :
                    /\ \A c \in just_pressed[g] : ButtonRank(b) <= ButtonRank(c)
                    /\ kbd_log.buttons[g] = << ButtonMeaning(b) >>
        /\ nav.b = kbd_log.buttons[kbd_log.order[1]] \o kbd_log.buttons[kbd_log.order[2]]

\* DPadDown and South just pressed together gave one Down
C9_Witness ==
    /\ kbd_log.ran
    /\ just_pressed["g1"] = {"DPadDown", "South"}
    /\ just_pressed["g2"] = {}
    /\ nav.b = << "Down" >>

\* the intent of each raw event, taken in arrival order
RECURSIVE IntentsInArrivalOrder(_, _)
IntentsInArrivalOrder(events, axisLog) ==
    IF events = << >> THEN << >>
    ELSE IF IsKey(Head(events))
         THEN KeyIntent(Head(events).key) \o IntentsInArrivalOrder(Tail(events), axisLog)
         ELSE Head(axisLog).out \o IntentsInArrivalOrder(Tail(events), Tail(axisLog))

RECURSIVE AxisIntentsOf(_)
AxisIntentsOf(axisLog) ==
    IF axisLog = << >> THEN << >> ELSE Head(axisLog).out \o AxisIntentsOf(Tail(axisLog))

\* C10 as stated: the intents written in a tick follow the arrival order of
\* the raw events across all devices (taken on the ticks where the raw events
\* are all there is, no button just pressed).
C10_ArrivalOrderAcrossDevices ==
    (kbd_log.ran /\ just_pressed = NoPressed) =>
        nav.b = IntentsInArrivalOrder(arrived, kbd_log.axis)

\* C10 amended: the intents of the keyboard events come first, in their
\* arrival order, then the intent of each gamepad's buttons, in the order of
\* the gamepad query, then those of the axis events, in their arrival order.
C10_ArrivalOrderPerDeviceClass ==
    kbd_log.ran =>
        nav.b = IntentsInArrivalOrder(keyboard_input, << >>)
                  \o kbd_log.buttons[kbd_log.order[1]]
                  \o kbd_log.buttons[kbd_log.order[2]]
                  \o AxisIntentsOf(kbd_log.axis)

\* a stick crossing arrived before a key press, with a button just pressed
C10_Witness ==
    /\ kbd_log.ran
    /\ Len(arrived) = 2
    /\ IsAxis(arrived[1])
    /\ IsKey(arrived[2])
    /\ just_pressed["g1"] = {"South"}
    /\ nav.b = << "Down", "Select", "Up" >>

\* C11: once cleanup_system has run and its commands are applied (the
\* MenuState is gone), no menu visual exists, the Menu Stack is discarded and
\* the Selection Store holds nothing a later menu could observe.
C11_TeardownDiscardsEverything ==
    ~menu_exists => (visuals = {} /\ stack = << >> /\ selections = EmptyMap)

XAxes == {"LeftStickX", "RightStickX"}

\* C12: one axis event emits at most one intent: on a Y axis Up on a positive
\* crossing of +0.10, otherwise Down on a negative crossing of -0.10,
\* otherwise nothing; on an X axis Back on a negative crossing of -0.10 and
\* nothing otherwise; on any other axis nothing.
C12_AxisMapping ==
    \A i \in 1..Len(kbd_log.axis) :
        LET l == kbd_log.axis[i]
            rose == l.event.value > STICK_THRESHOLD /\ STICK_THRESHOLD > l.previous
            fell == l.event.value < -STICK_THRESHOLD /\ -STICK_THRESHOLD < l.previous
        IN l.tracked =>
             /\ Len(l.out) <= 1
             /\ l.event.axis \in YAxes =>
                    l.out = IF rose THEN << "Up" >> ELSE IF fell THEN << "Down" >> ELSE << >>
             /\ l.event.axis \in XAxes =>
                    l.out = IF fell THEN << "Back" >> ELSE << >>
             /\ l.event.axis \notin (YAxes \cup XAxes) => l.out = << >>

\* an X axis crossed +0.10 upwards and nothing was emitted
C12_Witness ==
    \E i \in 1..Len(kbd_log.axis) :
        LET l == kbd_log.axis[i] IN
        /\ l.tracked
        /\ l.event.axis \in XAxes
        /\ l.previous < STICK_THRESHOLD
        /\ l.event.value > STICK_THRESHOLD
        /\ l.out = << >>

HasTracker(e) == e.entity \in DOMAIN activation

\* the step in which keyboard_input_system runs
NormalizerRuns == ~kbd_log.ran /\ kbd_log'.ran

\* C13: axis events of a gamepad without a tracker have no effect: the run of
\* keyboard_input_system leaves the trackers and writes the intents exactly as
\* if those events were not in the batch, creates no tracker and emits
\* nothing for them.
C13_UntrackedDropped ==
    [][ NormalizerRuns =>
          LET kept == AxisLoop(SelectSeq(axis_events, HasTracker), activation)
              log == kbd_log'.axis
          IN /\ activation' = kept.act
             /\ DOMAIN activation' = DOMAIN activation
             /\ kbd_log'.written =
                    KeyLoop(keyboard_input)
                      \o kbd_log'.buttons[kbd_log'.order[1]]
                      \o kbd_log'.buttons[kbd_log'.order[2]]
                      \o kept.out
             /\ nav'.b = nav.b \o kbd_log'.written
             /\ Len(log) = Len(axis_events)
             /\ \A i \in 1..Len(log) :
                    /\ log[i].event = axis_events[i]
                    /\ log[i].tracked = HasTracker(axis_events[i])
                    /\ ~log[i].tracked => log[i].out = << >>
      ]_vars

\* an event of the untracked gamepad was dropped and a later event of the
\* batch still gave its intent
C13_Witness ==
    /\ kbd_log.ran
    /\ \E i, j \in 1..Len(kbd_log.axis) :
          /\ i < j
          /\ ~kbd_log.axis[i].tracked
          /\ kbd_log.axis[i].event.entity \notin DOMAIN activation
          /\ kbd_log.axis[j].tracked
          /\ kbd_log.axis[j].out # << >>
          /\ nav.b = kbd_log.axis[j].out

MappedKeys == {"ArrowDown", "ArrowUp", "Enter", "Backspace"}

KeyMeaning(key) ==
    CASE key = "ArrowDown" -> "Down"
      [] key = "ArrowUp" -> "Up"
      [] key = "Enter" -> "Select"
      [] OTHER -> "Back"

IsMappedKey(e) == e.key \in MappedKeys

\* C14: each keyboard event with key code ArrowDown, ArrowUp, Enter or
\* Backspace gives exactly one intent, Down, Up, Select or Back, in the order
\* the events are read; an event with any other key code gives nothing.
C14_KeyboardMapping ==
    kbd_log.ran =>
        LET mapped == SelectSeq(keyboard_input, IsMappedKey) IN
        /\ kbd_log.written = nav.b
        /\ Len(nav.b) = Len(mapped)
        /\ \A i \in 1..Len(mapped) : nav.b[i] = KeyMeaning(mapped[i].key)

\* an unmapped key followed by Enter gave one Select
C14_Witness ==
    /\ kbd_log.ran
    /\ arrived = << KeyEvent("KeyA"), KeyEvent("Enter") >>
    /\ nav.b = << "Select" >>

SetMax(S) == CHOOSE x \in S : \A y \in S : y <= x

\* the value a tracker holds for an axis, 0.0 when it holds none
Recorded(tracker, axis) == IF axis \in DOMAIN tracker THEN tracker[axis] ELSE 0

\* C15: when keyboard_input_system runs, the previous value of every tracked
\* event is the value of the event before it on the same gamepad and axis, or
\* what the tracker held before the run (0.0 if nothing); afterwards the
\* tracker holds the value of the last event of each (gamepad, axis), intent
\* or not, and every other entry is as it was. No other step changes a
\* recorded value.
C15_TrackerBookkeeping ==
    [][ /\ NormalizerRuns =>
              LET log == kbd_log'.axis
                  Before(i) == { j \in 1..(i - 1) : SameChannel(log[i], log[j]) }
                  After(i) == { j \in (i + 1)..Len(log) : SameChannel(log[i], log[j]) }
                  Touched(g, a) == \E i \in 1..Len(log) :
                                      log[i].event.entity = g /\ log[i].event.axis = a
              IN /\ DOMAIN activation' = DOMAIN activation
                 /\ \A i \in 1..Len(log) :
                        LET g == log[i].event.entity
                            a == log[i].event.axis
                        IN log[i].tracked =>
                             /\ log[i].previous =
                                    IF Before(i) # {} THEN log[SetMax(Before(i))].event.value
                                    ELSE Recorded(activation[g], a)
                             /\ After(i) = {} =>
                                    /\ a \in DOMAIN activation'[g]
                                    /\ activation'[g][a] = log[i].event.value
                 /\ \A g \in DOMAIN activation : \A a \in Axes :
                        ~Touched(g, a) =>
                             /\ (a \in DOMAIN activation'[g]) <=> (a \in DOMAIN activation[g])
                             /\ Recorded(activation'[g], a) = Recorded(activation[g], a)
        /\ ~NormalizerRuns =>
              \A g \in DOMAIN activation :
                  g \in DOMAIN activation' /\ activation'[g] = activation[g]
      ]_vars

\* a value was recorded by an event that gave no intent, over an older one
C15_Witness ==
    /\ kbd_log.ran
    /\ \E i \in 1..Len(kbd_log.axis) :
          LET l == kbd_log.axis[i] IN
          /\ l.tracked
          /\ l.previous # 0
          /\ l.event.value # l.previous
          /\ l.out = << >>
          /\ \A j \in (i + 1)..Len(kbd_log.axis) : ~SameChannel(l, kbd_log.axis[j])
          /\ activation[l.event.entity][l.event.axis] = l.event.value

\* the step that ends a tick in which insert_gamepad_activation_system ran
InsertApplied == "insert_gamepad_activation_system" \in ran /\ ran' = {}

\* C16: insert_gamepad_activation_system selects exactly the gamepads without
\* a tracker; once its commands are applied every gamepad has a tracker, and
\* the tracker of a gamepad that already had one keeps its recorded values.
C16_TrackerCreation ==
    [][ /\ ("insert_gamepad_activation_system" \in ran' \ ran) =>
              commands'.insert = Gamepads \ DOMAIN activation
        /\ InsertApplied =>
              /\ DOMAIN activation' = Gamepads
              /\ \A g \in DOMAIN activation : activation'[g] = activation[g]
              /\ \A g \in Gamepads \ DOMAIN activation : activation'[g] = EmptyMap
      ]_vars

\* every gamepad has a tracker: one that never recorded a value, one that
\* kept its value through a later run of the system
C16_Witness ==
    /\ DOMAIN activation = Gamepads
    /\ activation["g2"] = EmptyMap
    /\ activation["g1"] # EmptyMap
    /\ "insert_gamepad_activation_system" \in ran
    /\ commands.insert = {}
    /\ arrived = << >>

\* entries i..k of the log are one excursion of a recorded value across the
\* threshold in direction sign (1 upwards across +0.10, -1 downwards across
\* -0.10): before entry i the value is strictly short of the threshold, entry
\* k puts it strictly past it, and the entries of the channel from i up to k
\* report exactly the threshold
Excursion(log, i, k, sign) ==
    /\ i <= k
    /\ log[i].tracked
    /\ SameChannel(log[i], log[k])
    /\ sign * log[i].previous < STICK_THRESHOLD
    /\ sign * log[k].event.value > STICK_THRESHOLD
    /\ \A j \in i..(k - 1) :
          SameChannel(log[i], log[j]) => sign * log[j].event.value = STICK_THRESHOLD

\* the intent an excursion is to give
ExcursionIntent(axis, sign) ==
    IF axis \in YAxes THEN (IF sign = 1 THEN << "Up" >> ELSE << "Down" >>)
    ELSE << "Back" >>

\* the excursions the claim speaks of: both ways on a Y axis, downwards on an
\* X axis
Claimed(axis, sign) == axis \in YAxes \/ (axis \in XAxes /\ sign = -1)

Fired(log, i, k, sign) ==
    { j \in i..k : /\ SameChannel(log[i], log[j])
                    /\ log[j].out = ExcursionIntent(log[i].event.axis, sign) }

\* C19 as stated: every excursion from strictly below the threshold to
\* strictly above it gives exactly one intent, also when an event in between
\* reports exactly the threshold.
C19_NoCrossingMissed ==
    \A i, k \in 1..Len(kbd_log.axis) : \A sign \in {1, -1} :
        ( /\ Excursion(kbd_log.axis, i, k, sign)
          /\ Claimed(kbd_log.axis[i].event.axis, sign) ) =>
            Cardinality(Fired(kbd_log.axis, i, k, sign)) = 1

\* C19 amended: an excursion made by a single event gives exactly one intent;
\* an excursion that passes through an event reporting exactly the threshold
\* gives none: neither the event that arrives on the threshold nor the one
\* that leaves it fires.
C19_CrossingWithinOneEvent ==
    /\ \A i, k \in 1..Len(kbd_log.axis) : \A sign \in {1, -1} :
          ( /\ Excursion(kbd_log.axis, i, k, sign)
            /\ Claimed(kbd_log.axis[i].event.axis, sign) ) =>
              Cardinality(Fired(kbd_log.axis, i, k, sign)) = IF i = k THEN 1 ELSE 0
    /\ \A i \in 1..Len(kbd_log.axis) : \A sign \in {1, -1} :
          LET l == kbd_log.axis[i] IN
          ( /\ l.tracked
            /\ Claimed(l.event.axis, sign)
            /\ \/ sign * l.previous = STICK_THRESHOLD
               \/ sign * l.event.value = STICK_THRESHOLD ) =>
              l.out # ExcursionIntent(l.event.axis, sign)

\* the stick went from rest to exactly +0.10, then past it: no Up
C19_Witness ==
    \E i, k \in 1..Len(kbd_log.axis) :
        /\ i < k
        /\ Excursion(kbd_log.axis, i, k, 1)
        /\ kbd_log.axis[i].event.axis \in YAxes
        /\ kbd_log.axis[i].event.value = STICK_THRESHOLD
        /\ Fired(kbd_log.axis, i, k, 1) = {}
        /\ nav.b = << >>

OnStack(stk, screen) == \E i \in 1..Len(stk) : stk[i] = screen

\* the step in which input_system runs
InputRuns == ~input_log.ran /\ input_log'.ran

\* input_system's Back popped a child screen in this tick
BackPopped ==
    /\ input_log.ran
    /\ input_log.events = << "Back" >>
    /\ Len(input_log.stack) > 1

PoppedScreen == Top(input_log.stack)

\* a pointer press of this tick on an item of the screen
PressedOn(log, screen) ==
    \E i \in 1..Len(log) :
        log[i].interaction = "Pressed" /\ log[i].button.screen = screen

\* the popped child is on the stack again with the index it had when popped
ReentryRestoresIndex ==
    (BackPopped /\ OnStack(stack, PoppedScreen)) =>
        CurrentIndex(selections, PoppedScreen) = input_log.index

ReentryRestoresIndexUnlessPressed ==
    (BackPopped /\ OnStack(stack, PoppedScreen) /\ ~PressedOn(mouse_log, PoppedScreen)) =>
        CurrentIndex(selections, PoppedScreen) = input_log.index

\* C17 as stated: no step deletes a Selection Store entry, Back changes no
\* entry, and a child popped by Back with index i has index i again when the
\* next Select pushes it.
C17_SelectionsPersist ==
    [][ /\ DOMAIN selections \subseteq DOMAIN selections'
        /\ (InputRuns /\ input_log'.events = << "Back" >>) => selections' = selections
        /\ ReentryRestoresIndex'
      ]_vars

\* C17 amended: as stated, unless a pointer press on a still rendered item
\* of the child wrote its entry in between. The entry of a screen that is
\* not on the stack changes by nothing but such a press, and a Select of
\* input_system that pushes a screen uses the row the store holds for it (0
\* if it holds none) and changes no entry.
C17_SelectionsPersistUnlessPressed ==
    [][ /\ DOMAIN selections \subseteq DOMAIN selections'
        /\ (InputRuns /\ input_log'.events = << "Back" >>) => selections' = selections
        /\ ReentryRestoresIndexUnlessPressed'
        /\ \A c \in Screens :
              ( /\ ~OnStack(stack, c)
                /\ \/ (c \in DOMAIN selections') # (c \in DOMAIN selections)
                   \/ SelectedRow(selections', c) # SelectedRow(selections, c) ) =>
                  PressedOn(mouse_log', c)
        /\ ( /\ InputRuns
              /\ input_log'.events = << "Select" >>
              /\ Len(stack') = Len(stack) + 1 ) =>
                /\ selections' = selections
                /\ CurrentIndex(selections', Top(stack')) = SelectedRow(selections, Top(stack'))
      ]_vars

\* Settings was left with row 1 selected and Select has pushed it again: its
\* current index is 1
C17_Witness ==
    /\ input_log.ran
    /\ input_log.events = << "Select" >>
    /\ input_log.stack = << "Root" >>
    /\ "mouse_system" \notin ran
    /\ stack = << "Root", "Settings" >>
    /\ "Settings" \in DOMAIN selections
    /\ selections["Settings"] = 1
    /\ CurrentIndex(selections, "Settings") = 1

\* the step in which mouse_system runs
MouseRuns == "mouse_system" \in ran' /\ "mouse_system" \notin ran

HoverOnly(log) ==
    \A i \in 1..Len(log) : log[i].interaction \in {"Hovered", "None"}

\* a button as the changed interactions are to leave it
Recoloured(b, log) ==
    IF ~b.selected /\ (\E i \in 1..Len(log) : log[i].button = b)
    THEN LET i == CHOOSE i \in 1..Len(log) : log[i].button = b
         IN [b EXCEPT !.bg = IF log[i].interaction = "Hovered" THEN "hover" ELSE "normal"]
    ELSE b

\* C18: a run of mouse_system that handles only Hovered and None leaves the
\* Menu Stack and the Selection Store as they were, dispatches nothing and
\* writes no RedrawEvent; it sets the background of each changed item that is
\* not the selected one (hover colour on Hovered, normal colour on None) and
\* nothing else.
C18_HoverOnlyColours ==
    [][ (MouseRuns /\ HoverOnly(mouse_log')) =>
          /\ stack' = stack
          /\ selections' = selections
          /\ dispatched' = dispatched
          /\ redraw' = redraw
          /\ signalled' = signalled
          /\ commands' = commands
          /\ \A i \in 1..Len(mouse_log') : mouse_log'[i].button \in visuals
          /\ visuals' = { Recoloured(b, mouse_log') : b \in visuals }
      ]_vars

\* an item that is not the selected one was hovered and shows the hover colour
C18_Witness ==
    /\ Len(mouse_log) = 1
    /\ mouse_log[1].interaction = "Hovered"
    /\ ~mouse_log[1].button.selected
    /\ mouse_log[1].button.bg = "normal"
    /\ [mouse_log[1].button EXCEPT !.bg = "hover"] \in visuals
    /\ mouse_log[1].button \notin visuals
    /\ Len(stack) = 2
    /\ redraw.b = 0

\* C20: a run of input_system writes one RedrawEvent if an intent was
\* pending, whatever the intent did, and handles that one intent; with no
\* intent pending it writes no RedrawEvent, dispatches nothing and leaves the
\* Menu Stack and the Selection Store as they were.
C20_RedrawIffIntentRead ==
    [][ InputRuns =>
          LET pending == nav.a \o nav.b IN
          IF pending = << >>
          THEN /\ redraw' = redraw
               /\ input_log'.events = << >>
               /\ dispatched' = dispatched
               /\ stack' = stack
               /\ selections' = selections
               /\ nav' = nav
          ELSE /\ redraw'.b = redraw.b + 1
               /\ redraw'.a = redraw.a
               /\ input_log'.events = << pending[1] >>
               /\ input_log'.redraws = 1
               /\ Len(nav'.a) + Len(nav'.b) = Len(pending) - 1
      ]_vars

\* Back at the root changed nothing and still wrote a RedrawEvent, with
\* another intent left pending
C20_Witness ==
    /\ input_log.ran
    /\ input_log.events = << "Back" >>
    /\ input_log.stack = << "Root" >>
    /\ input_log.redraws = 1
    /\ "redraw_system" \notin ran
    /\ stack = << "Root" >>
    /\ redraw.b = 1
    /\ Len(nav.a) + Len(nav.b) >= 1

=============================================================================
